---- MODULE Spec2Model ----
(***************************************************************************)
(* Model of the haltere_calculations package: the symbolic kinematics of   *)
(* the haltere end knobs (haltere_kinematics.py) and the Coriolis forces   *)
(* on them (coriolis_force.py).                                            *)
(*                                                                         *)
(* A symbolic expression is modelled by its expanded normal form: a        *)
(* polynomial with rational coefficients over atoms.  An atom is a string: *)
(* the name of a sympy Symbol, or an unevaluated function application such *)
(* as "cos(beta)".  Two sympy Symbols with the same name are the same atom,*)
(* as in sympy.  A monomial is a bag of atoms, a polynomial a function     *)
(* from monomials to nonzero rationals <<numerator, denominator>>.         *)
(***************************************************************************)
EXTENDS Integers, Sequences, FiniteSets, Bags, TLC

(***************************************************************************)
(* Rational numbers (sympy Integer and Rational, always in lowest terms).  *)
(***************************************************************************)
Abs(n) == IF n < 0 THEN -n ELSE n

RECURSIVE GCD(_, _)
GCD(a, b) == IF b = 0 THEN a ELSE GCD(b, a % b)

RatNorm(n, d) ==
    IF n = 0 THEN <<0, 1>>
    ELSE LET g == GCD(Abs(n), d) IN <<n \div g, d \div g>>

RatAdd(x, y) == RatNorm(x[1] * y[2] + y[1] * x[2], x[2] * y[2])

RatMul(x, y) == RatNorm(x[1] * y[1], x[2] * y[2])

(***************************************************************************)
(* Polynomials.                                                            *)
(***************************************************************************)
Zero == [mn \in {} |-> <<0, 1>>]

Num(n, d) == IF n = 0 THEN Zero ELSE [mn \in {EmptyBag} |-> RatNorm(n, d)]

Const(n) == Num(n, 1)

Atom(a) == [mn \in {SetToBag({a})} |-> <<1, 1>>]

Add(p, q) ==
    LET common == {mn \in DOMAIN p \cap DOMAIN q : RatAdd(p[mn], q[mn])[1] # 0}
        only_p == [mn \in (DOMAIN p) \ DOMAIN q |-> p[mn]]
        only_q == [mn \in (DOMAIN q) \ DOMAIN p |-> q[mn]]
    IN  IF DOMAIN p \cap DOMAIN q = {} THEN p @@ q
        ELSE [mn \in common |-> RatAdd(p[mn], q[mn])] @@ only_p @@ only_q

\* the polynomial r * mono * q, for a nonzero rational r and a monomial mono
Shift(q, mono, r) ==
    [mn \in {mq (+) mono : mq \in DOMAIN q} |-> RatMul(r, q[mn (-) mono])]

Neg(p) == Shift(p, EmptyBag, <<-1, 1>>)

Sub(p, q) == Add(p, Neg(q))

RECURSIVE MulOver(_, _, _)
MulOver(S, p, q) ==
    IF S = {} THEN Zero
    ELSE LET mp == CHOOSE x \in S : TRUE
         IN  Add(Shift(q, mp, p[mp]), MulOver(S \ {mp}, p, q))

Mul(p, q) == MulOver(DOMAIN p, p, q)

RECURSIVE Pow(_, _)
Pow(p, k) == IF k = 0 THEN Const(1) ELSE IF k = 1 THEN p ELSE Mul(p, Pow(p, k - 1))

\* sum of the polynomials f(x), x in S, for f a function on S
RECURSIVE SumOver(_, _)
SumOver(S, f) ==
    IF S = {} THEN Zero
    ELSE LET x == CHOOSE y \in S : TRUE IN Add(f[x], SumOver(S \ {x}, f))

Without(mn, a) == [x \in (DOMAIN mn) \ {a} |-> mn[x]]

(***************************************************************************)
(* expr.subs(a, e): every occurrence of the symbol a replaced by e.  The   *)
(* symbols substituted in this program never occur inside the argument of  *)
(* a function atom for the parameter sets enumerated below.                *)
(***************************************************************************)
Subs(p, a, e) ==
    IF \A mn \in DOMAIN p : ~BagIn(a, mn) THEN p
    ELSE SumOver(DOMAIN p,
                 [mn \in DOMAIN p |->
                     Shift(Pow(e, CopiesIn(a, mn)), Without(mn, a), p[mn])])

(***************************************************************************)
(* Vectors (sympy.Matrix of shape (3,1)) and 3x3 matrices.                 *)
(***************************************************************************)
Vec(x, y, z) == <<x, y, z>>

zero == Vec(Zero, Zero, Zero)

VecAdd(u, v) == [i \in 1..3 |-> Add(u[i], v[i])]

VecSub(u, v) == [i \in 1..3 |-> Sub(u[i], v[i])]

VecScale(s, v) == [i \in 1..3 |-> Mul(s, v[i])]

MatScale(s, M) == [i \in 1..3 |-> [j \in 1..3 |-> Mul(s, M[i][j])]]

MatVec(M, v) ==
    [i \in 1..3 |-> Add(Mul(M[i][1], v[1]), Add(Mul(M[i][2], v[2]), Mul(M[i][3], v[3])))]

Dot(u, v) == Add(Mul(u[1], v[1]), Add(Mul(u[2], v[2]), Mul(u[3], v[3])))

Cross(u, v) ==
    Vec(Sub(Mul(u[2], v[3]), Mul(u[3], v[2])),
        Sub(Mul(u[3], v[1]), Mul(u[1], v[3])),
        Sub(Mul(u[1], v[2]), Mul(u[2], v[1])))

VecSubs(u, a, e) == [i \in 1..3 |-> Subs(u[i], a, e)]

\* for v_i, v_i_expr in zip(v, v_expr): u = u.subs(v_i, v_i_expr)
RECURSIVE SubsLoop(_, _, _, _)
SubsLoop(u, syms, exprs, i) ==
    IF i > Len(syms) THEN u
    ELSE SubsLoop(VecSubs(u, syms[i], exprs[i]), syms, exprs, i + 1)


(***************************************************************************)
(* Functions of sympy applied by the program.                              *)
(***************************************************************************)
\* the name of the Symbol p
SymName(p) == LET mn == CHOOSE x \in DOMAIN p : TRUE IN CHOOSE a \in DOMAIN mn : TRUE

pi == Atom("pi")

\* an argument of cos and sin: the number 0, or a symbolic expression printed as str
Number0 == [zero |-> TRUE, str |-> "0"]

Expr(str) == [zero |-> FALSE, str |-> str]

\* sympy.cos and sympy.sin: evaluated at the number 0, unevaluated otherwise
cos(x) == IF x.zero THEN Const(1) ELSE Atom("cos(" \o x.str \o ")")

sin(x) == IF x.zero THEN Zero ELSE Atom("sin(" \o x.str \o ")")

(***************************************************************************)
(* The stroke angle function param['theta'], applied to t.  "Function" is  *)
(* sympy.Function('theta') and "CosFunc" is                                *)
(* functools.partial(CosFunc, param['Phi'], param['f']), whose eval        *)
(* returns amp*cos(2*pi*freq*t).                                           *)
(***************************************************************************)
PhaseStr(prm) == "2*pi*" \o SymName(prm.f) \o "*" \o SymName(prm.t)

ThetaStr(prm) ==
    IF prm.theta = "CosFunc"
    THEN SymName(prm.Phi) \o "*cos(" \o PhaseStr(prm) \o ")"
    ELSE "theta(" \o SymName(prm.t) \o ")"

\* theta(t)
theta(prm) == Expr(ThetaStr(prm))

\* param['beta']: a Symbol or the number 0
beta(prm) == IF prm.beta = Zero THEN Number0 ELSE Expr(SymName(prm.beta))

\* d theta(t) / dt
ThetaDot(prm) ==
    IF prm.theta = "CosFunc"
    THEN Mul(Const(-2), Mul(pi, Mul(prm.f, Mul(prm.Phi, sin(Expr(PhaseStr(prm)))))))
    ELSE Atom("Derivative(" \o ThetaStr(prm) \o ", " \o SymName(prm.t) \o ")")

\* d a / dt for an atom a of a position vector
DAtom(a, prm) ==
    IF a = SymName(prm.t) THEN Const(1)
    ELSE IF Atom(a) = cos(theta(prm))
         THEN Neg(Mul(sin(theta(prm)), ThetaDot(prm)))
    ELSE IF Atom(a) = sin(theta(prm))
         THEN Mul(cos(theta(prm)), ThetaDot(prm))
    ELSE Zero

\* sympy.diff(p, t): the sum and product rules over the monomials of p
DMono(mn, prm) ==
    SumOver(DOMAIN mn,
            [a \in DOMAIN mn |->
                Shift(DAtom(a, prm), mn (-) SetToBag({a}), <<mn[a], 1>>)])

Diff(p, prm) ==
    SumOver(DOMAIN p, [mn \in DOMAIN p |-> Mul(Num(p[mn][1], p[mn][2]), DMono(mn, prm))])

VecDiff(u, prm) == [i \in 1..3 |-> Diff(u[i], prm)]

\* sympy.rot_axis2, rot_axis3 and their counter-clockwise forms
\* rot_axis2 with cos in place of sin in its last row
rot_axis2_cos_for_sin(x) ==
    << <<cos(x), Zero, Neg(sin(x))>>, <<Zero, Const(1), Zero>>, <<cos(x), Zero, cos(x)>> >>

rot_axis2(x) ==
    << <<cos(x), Zero, Neg(sin(x))>>, <<Zero, Const(1), Zero>>, <<sin(x), Zero, cos(x)>> >>

rot_ccw_axis2(x) ==
    << <<cos(x), Zero, sin(x)>>, <<Zero, Const(1), Zero>>, <<Neg(sin(x)), Zero, cos(x)>> >>

rot_axis3(x) ==
    << <<cos(x), sin(x), Zero>>, <<Neg(sin(x)), cos(x), Zero>>, <<Zero, Zero, Const(1)>> >>

rot_ccw_axis3(x) ==
    << <<cos(x), Neg(sin(x)), Zero>>, <<sin(x), cos(x), Zero>>, <<Zero, Zero, Const(1)>> >>

(***************************************************************************)
(* haltere_kinematics.py: the quantities haltere_position builds           *)
(***************************************************************************)
pos0_knob_r(prm) == Vec(prm.L, Zero, Zero)

\* pos0_knob_l copied from the right side, its sign not changed
pos0_knob_l_as_right(prm) == Vec(prm.L, Zero, Zero)

pos0_knob_l(prm) == Vec(Neg(prm.L), Zero, Zero)

offset_r(prm) == Vec(Mul(prm.b, Num(1, 2)), Zero, Zero)

offset_l(prm) == Vec(Mul(Neg(prm.b), Num(1, 2)), Zero, Zero)

\* rot_stroke_r with the rotation of the left side
rot_stroke_r_ccw(prm) == rot_ccw_axis2(theta(prm))

rot_stroke_r(prm) == rot_axis2(theta(prm))

rot_stroke_l(prm) == rot_ccw_axis2(theta(prm))

rot_tilt_r(prm) == rot_axis3(beta(prm))

rot_tilt_l(prm) == rot_ccw_axis3(beta(prm))

pos_knob_r(prm) ==
    VecAdd(MatVec(rot_tilt_r(prm), MatVec(rot_stroke_r(prm), pos0_knob_r(prm))),
           offset_r(prm))

pos_knob_l(prm) ==
    VecAdd(MatVec(rot_tilt_l(prm), MatVec(rot_stroke_l(prm), pos0_knob_l(prm))),
           offset_l(prm))



(***************************************************************************)
(* Console output.  A call returns [ret |-> its return value, out |-> the  *)
(* lines it printed].  A line is a text with at most one value formatted   *)
(* into it: print(text), print(f'text {sympy.pretty(x)} text'), where {}   *)
(* marks the place of the value unless it ends the text, or                *)
(* sympy.pprint(x).                                                        *)
(***************************************************************************)
Line(text) == [text |-> text, value |-> <<>>]

Pretty(text, x) == [text |-> text, value |-> <<x>>]

PPrint(x) == Pretty("", x)

\* print(); print(label); sympy.pprint(x)
Labelled(label, x) == <<Line(""), Line(label), PPrint(x)>>

When(verbose, lines) == IF verbose THEN lines ELSE <<>>

(***************************************************************************)
(* haltere_kinematics.py: haltere_position and haltere_velocity            *)
(***************************************************************************)
haltere_position_out(prm) ==
    <<Line(""),
      Pretty("stroke position angle  = ", prm.theta),
      Pretty("caudad tilt angle      = ", prm.beta)>>
    \o Labelled("right knob position vector (w/o rotation or offset) = ", pos0_knob_r(prm))
    \o Labelled("left knob position vector (w/o rotation or offset) = ", pos0_knob_l(prm))
    \o Labelled("right offset vector (unrotated) = ", offset_r(prm))
    \o Labelled("left offset vector (unrotated) = ", offset_l(prm))
    \o Labelled("right stroke rotation matrix = ", rot_stroke_r(prm))
    \o Labelled("left stroke rotation matrix = ", rot_stroke_l(prm))
    \o Labelled("right tilt rotation matrix = ", rot_tilt_r(prm))
    \o Labelled("left tilt rotation matrix = ", rot_tilt_l(prm))
    \o Labelled("right knob position vector with rotation and offset =", pos_knob_r(prm))
    \o Labelled("left knob position vector with rotation and offset =", pos_knob_l(prm))

haltere_position(prm, verbose) ==
    [ret |-> <<pos_knob_r(prm), pos_knob_l(prm)>>,
     out |-> When(verbose, haltere_position_out(prm))]

haltere_velocity(prm, verbose) ==
    LET differentiated(pos) ==
            LET printed(vel_knob_r, vel_knob_l) ==
                    [ret |-> <<vel_knob_r, vel_knob_l>>,
                     out |-> pos.out
                             \o When(verbose,
                                     Labelled("right haltere knob velocity vector = ",
                                              vel_knob_r)
                                     \o Labelled("left haltere knob velocity vector = ",
                                                 vel_knob_l))]
            IN  printed(VecDiff(pos.ret[1], prm), VecDiff(pos.ret[2], prm))
    IN  differentiated(haltere_position(prm, FALSE))

(***************************************************************************)
(* coriolis_force.py: helpers                                              *)
(***************************************************************************)
w_from_param(prm) == Vec(prm.w_1, prm.w_2, prm.w_3)

w_cross_matrix(prm) ==
    << <<Zero, Neg(prm.w_3), prm.w_2>>,
       <<prm.w_3, Zero, Neg(prm.w_1)>>,
       <<Neg(prm.w_2), prm.w_1, Zero>> >>

\* the names of the placeholder Symbols of velocity()
velocity_names == <<"v_1", "v_2", "v_3">>

velocity == [i \in 1..3 |-> Atom(velocity_names[i])]

cross_matrices ==
    << << <<Zero, Zero, Zero>>, <<Zero, Zero, Const(-1)>>, <<Zero, Const(1), Zero>> >>,
       << <<Zero, Zero, Const(1)>>, <<Zero, Zero, Zero>>, <<Const(-1), Zero, Zero>> >>,
       << <<Zero, Const(-1), Zero>>, <<Const(1), Zero, Zero>>, <<Zero, Zero, Zero>> >> >>

(***************************************************************************)
(* A dict built by {key(i): val(i) for i in 1..n}: a later item with an    *)
(* equal key overwrites the earlier one.  The dict is the function from    *)
(* its keys to their values.                                               *)
(***************************************************************************)
LastIndex(keys, k) ==
    CHOOSE i \in DOMAIN keys : keys[i] = k /\ \A j \in DOMAIN keys : keys[j] = k => j <= i

DictFromItems(keys, vals) ==
    [k \in {keys[i] : i \in DOMAIN keys} |-> vals[LastIndex(keys, k)]]

\* sum(dict.values(), zero)
RECURSIVE VecSumOver(_, _)
VecSumOver(S, d) ==
    IF S = {} THEN zero
    ELSE LET k == CHOOSE x \in S : TRUE IN VecAdd(d[k], VecSumOver(S \ {k}, d))

DictSum(d) == VecSumOver(DOMAIN d, d)

\* {w_i: contrib_i with v replaced by v_expr, for w_i, contrib_i in d.items()}
DictSubs(d, v_expr) == [k \in DOMAIN d |-> SubsLoop(d[k], velocity_names, v_expr, 1)]

(***************************************************************************)
(* coriolis_force                                                          *)
(***************************************************************************)
force_w_contrib_of(prm) ==
    LET w == w_from_param(prm)
        cross_list == cross_matrices
    IN  DictFromItems(w,
            [i \in 1..3 |->
                MatVec(MatScale(Mul(Mul(Const(-2), prm.m), w[i]), cross_list[i]), velocity)])

\* consistency_check with its test inverted
consistency_check_inverted(force, other, text) ==
    IF VecSub(force, other) = zero THEN <<Line(text)>> ELSE <<>>

\* if (force - other) != zero: print(text)
consistency_check(force, other, text) ==
    IF VecSub(force, other) # zero THEN <<Line(text)>> ELSE <<>>

\* the lines of the three verbose loops over a contribution dict, in key order
ContribLines(template, w, d) ==
    LET first == {i \in 1..3 : \A j \in 1..3 : w[j] = w[i] => i <= j}
        item(i) == IF i \in first
                   THEN <<Line(""), Pretty(template, w[i]), PPrint(d[w[i]])>>
                   ELSE <<>>
    IN  item(1) \o item(2) \o item(3)

coriolis_force(prm, verbose) ==
    LET m == prm.m
        v == velocity
        w == w_from_param(prm)
        w_cross == w_cross_matrix(prm)
        substituted(force, force_w_contrib, vel) ==
            LET printed(force_r, force_l, force_w_contrib_r, force_w_contrib_l) ==
                    [ret |-> <<force_r, force_l,
                               [right |-> force_w_contrib_r, left |-> force_w_contrib_l]>>,
                     out |-> consistency_check(
                                 force, MatVec(MatScale(Mul(Const(-2), m), w_cross), v),
                                 "error: force != force_from_w_cross")
                             \o consistency_check(
                                    force, DictSum(force_w_contrib),
                                    "error: force != force_from_w_contrib")
                             \o vel.out
                             \o When(verbose,
                                  <<Line(""), Pretty("haltere end knob mass = ", m)>>
                                  \o Labelled("fly's angular velocity vector = ", v)
                                  \o Labelled("fly angular velocity vector = ", w)
                                  \o <<Line("")>>
                                  \o Labelled("coriolis force = -2 m (omega x v)= ", force)
                                  \o ContribLines("{} force contribution", w,
                                                  force_w_contrib)
                                  \o Labelled("coriolis force on right haltere = ", force_r)
                                  \o Labelled("coriolis force on left haltere = ", force_l)
                                  \o ContribLines("right haltere {} force contribution", w,
                                                  force_w_contrib_r)
                                  \o ContribLines("left haltere {} force contribution", w,
                                                  force_w_contrib_l))]
            IN  printed(SubsLoop(force, velocity_names, vel.ret[1], 1),
                        SubsLoop(force, velocity_names, vel.ret[2], 1),
                        DictSubs(force_w_contrib, vel.ret[1]),
                        DictSubs(force_w_contrib, vel.ret[2]))
    IN  substituted(VecScale(Mul(Const(-2), m), Cross(w, v)),
                    force_w_contrib_of(prm),
                    haltere_velocity(prm, FALSE))

(***************************************************************************)
(* expr.expand().simplify().  The expanded form is the representation; the *)
(* simplification is modelled by the normal form that rewrites every       *)
(* sin(x)^2 as 1 - cos(x)^2, which does not change the value.              *)
(***************************************************************************)
Pythagoras(p, x) ==
    LET s == SymName(sin(x))
        one_minus_cos2 == Sub(Const(1), Mul(cos(x), cos(x)))
        rest(mn) == IF CopiesIn(s, mn) % 2 = 1
                    THEN Without(mn, s) (+) SetToBag({s}) ELSE Without(mn, s)
    IN  IF x.zero \/ \A mn \in DOMAIN p : CopiesIn(s, mn) < 2 THEN p
        ELSE SumOver(DOMAIN p,
                 [mn \in DOMAIN p |->
                     Shift(Pow(one_minus_cos2, CopiesIn(s, mn) \div 2), rest(mn), p[mn])])

simplify(p, prm) ==
    Pythagoras(Pythagoras(Pythagoras(p, beta(prm)), theta(prm)), Expr(PhaseStr(prm)))

(***************************************************************************)
(* normal_coriolis_force                                                   *)
(***************************************************************************)
ax_r(prm) == Vec(sin(beta(prm)), cos(beta(prm)), Zero)

\* ax_l copied from the right side, its sign not changed
ax_l_as_right(prm) == Vec(sin(beta(prm)), cos(beta(prm)), Zero)

ax_l(prm) == Vec(Neg(sin(beta(prm))), cos(beta(prm)), Zero)

side_list == <<"right", "left">>

\* the lines of the verbose loop: for w_i in w: for side in side_list
NormContribLines(w, d) ==
    LET item(i, side) ==
            <<Line(""),
              Pretty("normal force contribution on " \o side \o " haltere due to {} = ", w[i]),
              PPrint(d[side][w[i]])>>
        row(i) == item(i, side_list[1]) \o item(i, side_list[2])
    IN  row(1) \o row(2) \o row(3)

normal_coriolis_force(prm, verbose) ==
    LET w == w_from_param(prm)
        ax_list == <<ax_r(prm), ax_l(prm)>>
        projected(cf) ==
            LET printed(norm_force_r, norm_force_l, norm_w_contrib_dict) ==
                    [ret |-> <<norm_force_r, norm_force_l, norm_w_contrib_dict>>,
                     out |-> cf.out
                             \o When(verbose,
                                  Labelled("normal force on right haltere", norm_force_r)
                                  \o Labelled("normal force on left haltere", norm_force_r)
                                  \o NormContribLines(w, norm_w_contrib_dict))]
            IN  printed(simplify(Dot(cf.ret[1], ax_r(prm)), prm),
                        simplify(Dot(cf.ret[2], ax_l(prm)), prm),
                        [side \in {side_list[n] : n \in 1..2} |->
                            [w_i \in {w[i] : i \in 1..3} |->
                                simplify(Dot(cf.ret[3][side][w_i],
                                             ax_list[CHOOSE n \in 1..2 : side_list[n] = side]),
                                         prm)]])
    IN  projected(coriolis_force(prm, FALSE))

(***************************************************************************)
(* The program as a state machine: a caller, as the driver script          *)
(* examples/test_haltere_motion.py, builds a parameter set, sets verbose,  *)
(* and calls the four operations on them, in any order, any number of      *)
(* times.                                                                  *)
(***************************************************************************)
MaxPrintingCalls == 1

Ops == {"haltere_position", "haltere_velocity", "coriolis_force", "normal_coriolis_force"}

\* the driver's parameter set, without 'theta'
DriverParam ==
    [t   |-> Atom("t"),
     f   |-> Atom("f"),
     Phi |-> Atom("Phi"),
     w_1 |-> Atom("omega_1"),
     w_2 |-> Atom("omega_2"),
     w_3 |-> Atom("omega_3"),
     m   |-> Atom("m"),
     L   |-> Atom("L"),
     b   |-> Atom("b"),
     beta |-> Atom("beta")]

\* the parameter sets: the driver's, with the stroke angle abstract or
\* explicit, the tilt and the separation a Symbol or the number 0, w_2 its
\* own Symbol or the Symbol of w_1, and the length a Symbol named L or
\* named as a placeholder of velocity()
ParamSets ==
    {[t |-> DriverParam.t, f |-> DriverParam.f, Phi |-> DriverParam.Phi,
      w_1 |-> DriverParam.w_1, w_2 |-> w_2, w_3 |-> DriverParam.w_3,
      m |-> DriverParam.m, L |-> L, b |-> b, beta |-> tilt, theta |-> th] :
        w_2 \in {DriverParam.w_2, DriverParam.w_1},
        L \in {DriverParam.L, Atom("v_2")},
        b \in {DriverParam.b, Zero},
        tilt \in {DriverParam.beta, Zero},
        th \in {"Function", "CosFunc"}}

VARIABLES
    param,      \* the caller's parameter set
    verbose,    \* the caller's verbose switch, passed to every call
    console,    \* the lines printed so far
    last,       \* for each operation, whether it was called and what its last call returned
    prev,       \* the operation called last
    recalled,   \* TRUE once an operation was called again after a call of another one
    nprinting   \* the number of calls so far that printed something

vars == <<param, verbose, console, last, prev, recalled, nprinting>>

Init ==
    /\ param \in ParamSets
    /\ verbose \in BOOLEAN
    /\ console = <<>>
    /\ last = [op \in Ops |-> [called |-> FALSE, ret |-> <<>>]]
    /\ prev = "none"
    /\ recalled = FALSE
    /\ nprinting = 0

\* a call that halves the separation in the caller's parameter set
Call_halving_b(op, r) ==
    /\ r.out # <<>> => nprinting < MaxPrintingCalls
    /\ nprinting' = IF r.out # <<>> THEN nprinting + 1 ELSE nprinting
    /\ console' = console \o r.out
    /\ last' = [last EXCEPT ![op] = [called |-> TRUE, ret |-> r.ret]]
    /\ prev' = op
    /\ recalled' = (recalled \/ (last[op].called /\ prev # op))
    /\ param' = [param EXCEPT !.b = Mul(Num(1, 2), param.b)]
    /\ UNCHANGED verbose

\* a call of op that returned r.ret and printed r.out
Call(op, r) ==
    /\ r.out # <<>> => nprinting < MaxPrintingCalls
    /\ nprinting' = IF r.out # <<>> THEN nprinting + 1 ELSE nprinting
    /\ console' = console \o r.out
    /\ last' = [last EXCEPT ![op] = [called |-> TRUE, ret |-> r.ret]]
    /\ prev' = op
    /\ recalled' = (recalled \/ (last[op].called /\ prev # op))
    /\ UNCHANGED <<param, verbose>>

CallHalterePosition ==
    Call("haltere_position", haltere_position(param, verbose))

CallHaltereVelocity ==
    Call("haltere_velocity", haltere_velocity(param, verbose))

CallCoriolisForce ==
    Call("coriolis_force", coriolis_force(param, verbose))

CallNormalCoriolisForce ==
    Call("normal_coriolis_force", normal_coriolis_force(param, verbose))

Next ==
    \/ CallHalterePosition
    \/ CallHaltereVelocity
    \/ CallCoriolisForce
    \/ CallNormalCoriolisForce

Spec == Init /\ [][Next]_vars

(***************************************************************************)
(* The claims.                                                             *)
(***************************************************************************)
Called(op) == last[op].called

Ret(op) == last[op].ret

Sides == {"right", "left"}

\* -2*m*(w x v_side) for the parameter set, with v_side the velocity that
\* haltere_velocity returns for it
DirectForce(side) ==
    LET vel == haltere_velocity(param, FALSE).ret
        v == IF side = "right" THEN vel[1] ELSE vel[2]
    IN  VecScale(Mul(Const(-2), param.m), Cross(w_from_param(param), v))

\* the force coriolis_force returned for the side
ReturnedForce(side) ==
    IF side = "right" THEN Ret("coriolis_force")[1] ELSE Ret("coriolis_force")[2]

\* C1: the right and left force vectors coriolis_force returns are
\* -2*m*(w x v_r) and -2*m*(w x v_l), for v_r, v_l the velocities
\* haltere_velocity returns for the same parameter set.
C1_ForceIsCrossProduct ==
    Called("coriolis_force") => \A side \in Sides : ReturnedForce(side) = DirectForce(side)

\* C2: for both sides, the sum over all entries of w_contrib_dict[side]
\* returned by coriolis_force is the total force returned for that side.
C2_ContributionsSumToForce ==
    Called("coriolis_force") =>
        \A side \in Sides : DictSum(Ret("coriolis_force")[3][side]) = ReturnedForce(side)

\* the axis of the side as the specification states it:
\* right (sin beta, cos beta, 0), left (-sin beta, cos beta, 0)
StatedAxis(side) ==
    IF side = "right" THEN Vec(sin(beta(param)), cos(beta(param)), Zero)
    ELSE Vec(Neg(sin(beta(param))), cos(beta(param)), Zero)

\* two expressions have the same value: the same normal form
SameValue(p, q) == simplify(p, param) = simplify(q, param)

\* C3: normal_coriolis_force returns, for each side, the dot product of the
\* side's Coriolis force with the side's axis, and a mapping defined at
\* [side][w_i] for each side and each of w_1, w_2, w_3 that holds the dot
\* product of coriolis_force's w_contrib_dict[side][w_i] with that axis.
C3_NormalForceIsProjection ==
    Called("normal_coriolis_force") =>
        LET cf == coriolis_force(param, FALSE).ret
            ncf == Ret("normal_coriolis_force")
            w == w_from_param(param)
        IN  /\ SameValue(ncf[1], Dot(cf[1], StatedAxis("right")))
            /\ SameValue(ncf[2], Dot(cf[2], StatedAxis("left")))
            /\ DOMAIN ncf[3] = Sides
            /\ \A side \in Sides : \A i \in 1..3 :
                /\ w[i] \in DOMAIN ncf[3][side]
                /\ SameValue(ncf[3][side][w[i]], Dot(cf[3][side][w[i]], StatedAxis(side)))

\* normal_coriolis_force has returned for a tilted haltere pair, where the
\* two axes differ and so do the two normal forces
C3_Witness ==
    /\ Called("normal_coriolis_force")
    /\ param.beta # Zero
    /\ StatedAxis("right") # StatedAxis("left")
    /\ Ret("normal_coriolis_force")[1] # Ret("normal_coriolis_force")[2]

\* the spec's concrete scenario: theta(t) = Phi*cos(2*pi*f*t), beta = 0, b = 0
FlatExplicit == param.theta = "CosFunc" /\ param.beta = Zero /\ param.b = Zero

\* cos and sin of Phi*cos(2*pi*f*t), written out
CosStroke == Atom("cos(Phi*cos(2*pi*f*t))")

SinStroke == Atom("sin(Phi*cos(2*pi*f*t))")

\* C4 as stated: in the concrete scenario the right knob position is
\* (L*cos(theta), L*sin(theta), 0).
C4_FlatPositionInXY ==
    Called("haltere_position") /\ FlatExplicit =>
        Ret("haltere_position")[1] = Vec(Mul(param.L, CosStroke), Mul(param.L, SinStroke), Zero)

\* C4 as amended: in the concrete scenario the right knob position is
\* (L*cos(theta), 0, L*sin(theta)): the stroke rotation is about axis 2, so
\* the knob moves in the x-z plane; only L, Phi, f and t occur in it.
C4_FlatPositionInXZ ==
    Called("haltere_position") /\ FlatExplicit =>
        Ret("haltere_position")[1] = Vec(Mul(param.L, CosStroke), Zero, Mul(param.L, SinStroke))

\* haltere_position has returned in the concrete scenario
C4_Witness ==
    /\ Called("haltere_position")
    /\ FlatExplicit
    /\ Ret("haltere_position")[1][3] # Zero

\* p with the symbol x replaced by -x (nothing to replace in the number 0)
Negated(p, x) == IF x = Zero THEN p ELSE Subs(p, SymName(x), Neg(x))

\* the position u with theta replaced by -theta, b by -b and beta by -beta:
\* cos is even and sin is odd, so sin(theta) and sin(beta) change sign
MirrorAngles(u) ==
    [i \in 1..3 |->
        Negated(Negated(Negated(u[i], sin(theta(param))), sin(beta(param))), param.b)]

\* C5 as stated: the right position with theta, b and beta negated, and
\* nothing else changed, is the left position.
C5_MirrorByAnglesAndOffset ==
    Called("haltere_position") =>
        MirrorAngles(Ret("haltere_position")[1]) = Ret("haltere_position")[2]

\* C5 as amended: the right position with theta, b and beta negated and
\* with L negated as well (the unrotated knob position is (L, 0, 0) on the
\* right and (-L, 0, 0) on the left) is the left position.
C5_MirrorWithLength ==
    Called("haltere_position") =>
        LET mirrored == MirrorAngles(Ret("haltere_position")[1])
        IN  [i \in 1..3 |-> Negated(mirrored[i], param.L)] = Ret("haltere_position")[2]

\* haltere_position has returned for an abstract stroke angle, with a tilt
\* and a separation that are Symbols, so that every negation acts
C5_Witness ==
    /\ Called("haltere_position")
    /\ param.theta = "Function"
    /\ param.beta # Zero
    /\ param.b # Zero
    /\ MirrorAngles(Ret("haltere_position")[1]) # Ret("haltere_position")[1]

\* C6: with verbose=False none of the four operations prints anything,
\* the nested calls and the two consistency-check warnings included.
C6_QuietPrintsNothing == ~verbose => console = <<>>

\* the value printed on the line after line i
ShownAfter(i) == console[i + 1].value

\* C7: with verbose=True every value printed by coriolis_force and
\* normal_coriolis_force is the quantity its label names: the right and
\* left normal forces, the angular velocity vector w, and force_r, force_l.
C7_PrintedValueIsLabelled ==
    \A i \in 1..(Len(console) - 1) :
        LET label == console[i].text
            cf == coriolis_force(param, FALSE).ret
            ncf == normal_coriolis_force(param, FALSE).ret
        IN  /\ label = "normal force on right haltere" => ShownAfter(i) = <<ncf[1]>>
            /\ label = "normal force on left haltere" => ShownAfter(i) = <<ncf[2]>>
            /\ label = "fly's angular velocity vector = " =>
                    ShownAfter(i) = <<w_from_param(param)>>
            /\ label = "fly angular velocity vector = " =>
                    ShownAfter(i) = <<w_from_param(param)>>
            /\ label = "coriolis force on right haltere = " => ShownAfter(i) = <<cf[1]>>
            /\ label = "coriolis force on left haltere = " => ShownAfter(i) = <<cf[2]>>

Printed(text) == \E i \in 1..Len(console) : console[i] = Line(text)

\* the expressions the two consistency checks compare, for the parameter set
GenericForce ==
    VecScale(Mul(Const(-2), param.m), Cross(w_from_param(param), velocity))

ForceFromWCross ==
    MatVec(MatScale(Mul(Const(-2), param.m), w_cross_matrix(param)), velocity)

ForceFromWContrib == DictSum(force_w_contrib_of(param))

\* C9: each consistency check of coriolis_force prints its warning if and
\* only if the two expressions it compares differ, and the call returns
\* force_r, force_l and the contribution mapping in either case.
C9_WarnAndContinue ==
    /\ Called("coriolis_force") =>
        /\ Len(Ret("coriolis_force")) = 3
        /\ DOMAIN Ret("coriolis_force")[3] = Sides
        /\ Printed("error: force != force_from_w_cross") <=> GenericForce # ForceFromWCross
        /\ Printed("error: force != force_from_w_contrib")
                <=> GenericForce # ForceFromWContrib
    /\ \/ Printed("error: force != force_from_w_cross")
       \/ Printed("error: force != force_from_w_contrib")
       => Called("coriolis_force") \/ Called("normal_coriolis_force")

\* coriolis_force has printed a warning and returned its three values
C9_Witness ==
    /\ Called("coriolis_force")
    /\ Printed("error: force != force_from_w_contrib")
    /\ Len(Ret("coriolis_force")) = 3

\* the squared distance of the knob at pos from the base at (x, 0, 0)
SquaredDistance(pos, x) ==
    LET d == VecSub(pos, Vec(x, Zero, Zero)) IN simplify(Dot(d, d), param)

\* C10: the knob stays at distance L from its base:
\* |pos_knob_r - (b/2, 0, 0)|^2 = L^2 and |pos_knob_l - (-b/2, 0, 0)|^2 = L^2,
\* using only cos^2 + sin^2 = 1 for theta and beta.
C10_RigidLength ==
    Called("haltere_position") =>
        /\ SquaredDistance(Ret("haltere_position")[1], Mul(Num(1, 2), param.b))
                = Mul(param.L, param.L)
        /\ SquaredDistance(Ret("haltere_position")[2], Mul(Num(-1, 2), param.b))
                = Mul(param.L, param.L)

\* haltere_position has returned for an explicit stroke angle, a tilt and a
\* separation that are Symbols, and the knob is off the x axis
C10_Witness ==
    /\ Called("haltere_position")
    /\ param.theta = "CosFunc"
    /\ param.beta # Zero
    /\ param.b # Zero
    /\ Ret("haltere_position")[1][2] # Zero
    /\ Ret("haltere_position")[1][3] # Zero
====
